---- MODULE Spec2Model ----
(***************************************************************************)
(* Model of the clinical-protocol extraction gateway:                      *)
(*   app.py                    POST /extract (upload validation, response) *)
(*   llama_extract_service.py  LlamaExtractService (page selection,        *)
(*                             temp files, remote agent and extract call)  *)
(* A request is followed statement group by statement group; the temp      *)
(* directory, the remote service and the interpreter's exception flow are  *)
(* part of the state.                                                      *)
(***************************************************************************)
EXTENDS Integers, Sequences, FiniteSets, TLC

(***************************************************************************)
(* Bounds of the model                                                     *)
(***************************************************************************)
\* largest page count of an uploaded PDF
MaxPages == 41
\* number of free names in the temp directory, per request being handled
MaxPaths == 2
\* number of distinct 8-hex-digit agent suffixes uuid4 can produce here
MaxAgentNames == 2
\* number of distinct structured values the remote extract call can return
MaxData == 2
\* number of calls a direct caller of the page selector makes
MaxSelectorCalls == 2

(***************************************************************************)
(* Program constants                                                       *)
(***************************************************************************)
\* start_page = 19  (page 20, 0-indexed)
START_PAGE == 19
\* the range end taken one page too far
END_PAGE_OffByOne == 39 + 1
\* the 39 of  end_page = min(39, total_pages - 1)
END_PAGE == 39
\* 16 * 1024 * 1024
MAX_FILE_SIZE == 16 * 1024 * 1024

\* Python's None for a path variable, and a local name not yet bound
None == 0
Unbound == -1

AgentSuffixes == 1..MaxAgentNames
DataValues == 1..MaxData

Min(a, b) == IF a <= b THEN a ELSE b

(***************************************************************************)
(* Strings the code takes apart are sequences of characters                *)
(***************************************************************************)
LowerChar(c) ==
    CASE c = "A" -> "a"
      [] c = "D" -> "d"
      [] c = "F" -> "f"
      [] c = "P" -> "p"
      [] OTHER -> c

\* str.lower()
Lower(s) == [i \in 1..Len(s) |-> LowerChar(s[i])]

\* str.endswith(suffix)
EndsWith(s, suffix) ==
    /\ Len(s) >= Len(suffix)
    /\ \A i \in 1..Len(suffix) : s[Len(s) - Len(suffix) + i] = suffix[i]

DOT_PDF == <<".", "p", "d", "f">>

Filenames ==
    { <<>>,
      <<"a", ".", "p", "d", "f">>,
      <<"a", ".", "P", "D", "F">>,
      <<"a", ".", "t", "x", "t">>,
      <<"p", "d", "f">> }

(***************************************************************************)
(* File contents: whether the file has any byte, whether PyPDF2 can parse  *)
(* it, and its pages (a page is named by its number in the upload)         *)
(***************************************************************************)
EmptyContent == [nonempty |-> FALSE, parseable |-> FALSE, pages |-> <<>>]
GarbageContent == [nonempty |-> TRUE, parseable |-> FALSE, pages |-> <<>>]
PdfContent(pages) == [nonempty |-> TRUE, parseable |-> TRUE, pages |-> pages]
SourcePdf(total) == PdfContent([i \in 1..total |-> i])

\* an upload: its length in bytes and its content
Uploads ==
    { [size |-> 0, content |-> EmptyContent] }
    \cup { [size |-> s, content |-> GarbageContent] :
              s \in {1, MAX_FILE_SIZE, MAX_FILE_SIZE + 1} }
    \cup { [size |-> 1 + t, content |-> SourcePdf(t)] : t \in 0..MaxPages }

(***************************************************************************)
(* Messages                                                                *)
(***************************************************************************)
NoMessage == <<>>
ERR_NO_FILE == <<"No file provided">>
ERR_NO_UPLOAD == <<"No file uploaded">>
ERR_NOT_PDF == <<"File must be a PDF">>
ERR_TOO_LARGE == <<"File too large. Maximum 16MB allowed">>
ERR_APP_UNAVAILABLE ==
    <<"LlamaExtract service not available. Please check LLAMA_CLOUD_API_KEY and dependencies.">>
FALLBACK_MESSAGE == <<"You can install dependencies with: pip install llama-extract">>
ERR_SVC_UNAVAILABLE ==
    <<"LlamaExtract service not available. Check API key and dependencies.">>
ERR_NO_BUFFER == <<"No file buffer provided">>
ERR_PAGES == <<"Failed to create temporary file or extract pages 20-40">>
\* f"Failed to load schema: {str(e)}"
SchemaFailed(e) == <<"Failed to load schema: ", e>>
\* f"Extraction failed: {str(e)}"
ExtractionFailed(e) == <<"Extraction failed: ", e>>
\* f'Server error: {str(e)}'
ServerError(e) == <<"Server error: ", e>>

TemplateKeys ==
    { "informedConsent", "studyProcedures", "eligibilityCriteria",
      "randomization", "physicalExamination", "cardiacAssessments",
      "safetyMonitoring", "laboratoryAssessments", "pharmacokinetics",
      "tumorImaging", "clinicalOutcomeAssessments", "studyIntervention" }

VARIABLES
    api_key,                 \* os.getenv('LLAMA_CLOUD_API_KEY') is set
    LLAMA_EXTRACT_AVAILABLE, \* llama_cloud_services was imported
    PYPDF2_AVAILABLE,        \* PyPDF2 was imported
    ctor_ok,                 \* LlamaExtract() does not raise
    extractor,               \* llama_service.extractor: "None" or "client"
    fs,                      \* the temp directory: path -> content
    req,                     \* the requests being handled
    clients,                 \* who sends requests in this run
    selector_calls           \* the calls a direct caller of the selector made

vars == <<api_key, LLAMA_EXTRACT_AVAILABLE, PYPDF2_AVAILABLE, ctor_ok,
          extractor, fs, req, clients, selector_calls>>

env == <<api_key, LLAMA_EXTRACT_AVAILABLE, PYPDF2_AVAILABLE, ctor_ok, extractor,
         clients, selector_calls>>

\* the names tempfile can choose from
Paths == 1..(MaxPaths * Cardinality(DOMAIN req))


(***************************************************************************)
(* LlamaExtractService.__init__ and is_available                           *)
(***************************************************************************)
\* __init__ without the except clause that resets self.extractor
LlamaExtractService_init_NoCatch(key, available, constructs) ==
    IF key /\ available THEN "client" ELSE "None"

\* the value of self.extractor after __init__
LlamaExtractService_init(key, available, constructs) ==
    IF key /\ available
    THEN IF constructs THEN "client" ELSE "None"
    ELSE "None"

\* is_available that does not look at the extractor
is_available_Always(ext) == TRUE

is_available(ext) == ext # "None"

(***************************************************************************)
(* extract_pages_20_to_40                                                  *)
(***************************************************************************)
\* the clamp written against the page count instead of the last index
end_page_Unclamped(total_pages) == Min(END_PAGE, total_pages)

\* end_page = min(39, total_pages - 1)
end_page(total_pages) == Min(END_PAGE, total_pages - 1)

\* the start test written with > instead of >=
StartExceeds_Strict(total_pages) == START_PAGE > total_pages

\* if start_page >= total_pages
StartExceeds(total_pages) == START_PAGE >= total_pages

\* for page_num in range(start_page, end_page + 1):
\*     writer.add_page(reader.pages[page_num])
CopiedPages(pages, first, last) ==
    [i \in 1..(last - first + 1) |-> pages[first + i]]

\* a fallback that hands back the (empty) output file
FallbackPath_Output(input_path, output_path) == output_path

\* what the selector returns when PyPDF2 is missing or an exception is caught
FallbackPath(input_path, output_path) == input_path

\* an output file opened for appending: what an earlier call wrote stays
Written_Append(old, pages) == PdfContent(old.pages \o pages)

\* lines 104-105: open(output_path, 'wb') truncates, writer.write fills
Written(old, pages) == PdfContent(pages)

\* io: "ok", or how writing the output failed: "not_opened" leaves the file
\* as it was, "partial" leaves some bytes in it.
\* The value is the returned path, the temp directory afterwards, and
\* whether the write was attempted and failed.
extract_pages_20_to_40(disk, input_path, output_path, io) ==
    LET fallback == [path |-> FallbackPath(input_path, output_path),
                     disk |-> disk, io_failed |-> FALSE]
    IN
    IF ~PYPDF2_AVAILABLE THEN fallback
    ELSE IF input_path \notin DOMAIN disk THEN fallback
    ELSE IF ~disk[input_path].parseable THEN fallback
    ELSE
      LET pages == disk[input_path].pages
          total_pages == Len(pages)
          last == end_page(total_pages)
      IN
      IF StartExceeds(total_pages)
      THEN [path |-> input_path, disk |-> disk, io_failed |-> FALSE]
      ELSE IF last >= total_pages
      THEN fallback      \* reader.pages[page_num] raises IndexError
      ELSE IF io = "not_opened" \/ output_path \notin DOMAIN disk
      THEN [fallback EXCEPT !.io_failed = TRUE]
      ELSE IF io = "partial"
      THEN [fallback EXCEPT !.io_failed = TRUE,
                            !.disk = [disk EXCEPT ![output_path] = GarbageContent]]
      ELSE [path |-> output_path,
            disk |-> [disk EXCEPT ![output_path] =
                         Written(@, CopiedPages(pages, START_PAGE, last))],
            io_failed |-> FALSE]

(***************************************************************************)
(* Results of extract_from_buffer and responses of POST /extract           *)
(***************************************************************************)
NoData == [protocol_template |-> "none", extracted_content |-> 0,
           pages_processed |-> "none"]

NoResult == [outcome |-> "none", error |-> NoMessage, data |-> NoData,
             filename |-> <<>>, schema_type |-> "none", agent_name |-> 0]

\* {"success": False, "error": message}
Failure(message) == [NoResult EXCEPT !.outcome = "failure", !.error = message]

\* an exception that leaves extract_from_buffer
Raised(e) == [NoResult EXCEPT !.outcome = "raised", !.error = <<e>>]

\* a success result that leaves result.data out
Success_WithoutData(value, filename, name) ==
    [outcome |-> "success", error |-> NoMessage,
     data |-> [protocol_template |-> "clinical_protocol_template",
               extracted_content |-> 0,
               pages_processed |-> "20-40"],
     filename |-> filename,
     schema_type |-> "clinical_study_protocol",
     agent_name |-> name]

\* lines 399-412
Success(value, filename, name) ==
    [outcome |-> "success", error |-> NoMessage,
     data |-> [protocol_template |-> "clinical_protocol_template",
               extracted_content |-> value,
               pages_processed |-> "20-40"],
     filename |-> filename,
     schema_type |-> "clinical_study_protocol",
     agent_name |-> name]

NoMetadata == [filename |-> <<>>, schema_type |-> "none", agent_name |-> 0,
               message |-> "none"]

NoResponse == [status |-> 0, keys |-> {}, error |-> NoMessage,
               fallback_message |-> NoMessage,
               llamaExtractedData |-> NoData,
               extractionMetadata |-> NoMetadata]

\* jsonify({'error': message}), status
ErrorResponse(status, message) ==
    [NoResponse EXCEPT !.status = status, !.keys = {"error"}, !.error = message]

\* app.py 43-46
UnavailableResponse ==
    [NoResponse EXCEPT !.status = 503, !.keys = {"error", "fallback_message"},
                       !.error = ERR_APP_UNAVAILABLE,
                       !.fallback_message = FALLBACK_MESSAGE]

\* app.py 62-283
SuccessResponse(result) ==
    [status |-> 200,
     keys |-> TemplateKeys \cup {"llamaExtractedData", "extractionMetadata"},
     error |-> NoMessage,
     fallback_message |-> NoMessage,
     llamaExtractedData |-> result.data,
     extractionMetadata |->
        [filename |-> result.filename,
         schema_type |-> result.schema_type,
         agent_name |-> result.agent_name,
         message |-> "Clinical study protocol extraction completed using LlamaExtract"]]

\* the failure branch answering as the success branch does
FailureResponse_AsSuccess(result) == SuccessResponse(result)

\* app.py 285-286
FailureResponse(result) == ErrorResponse(500, result.error)

\* app.py 288-290
ExceptionResponse(result) == ErrorResponse(500, ServerError(result.error[1]))

(***************************************************************************)
(* Upload validation of POST /extract, in the order of the code            *)
(***************************************************************************)
\* file.filename.lower().endswith('.pdf')
IsPdfName(filename) == EndsWith(Lower(filename), DOT_PDF)

\* the size check against twice the limit
TooLarge_DoubleLimit(file_size) == file_size > 32 * 1024 * 1024

\* the size check written with >=
TooLarge_AtLimit(file_size) == file_size >= MAX_FILE_SIZE

\* file_size > 16 * 1024 * 1024
TooLarge(file_size) == file_size > MAX_FILE_SIZE

\* the message of the first failing check, NoMessage when all pass
ValidationError(has_file, filename, file_size) ==
    IF ~has_file THEN ERR_NO_FILE
    ELSE IF filename = <<>> THEN ERR_NO_UPLOAD
    ELSE IF ~IsPdfName(filename) THEN ERR_NOT_PDF
    ELSE IF TooLarge(file_size) THEN ERR_TOO_LARGE
    ELSE NoMessage

(***************************************************************************)
(* One request                                                             *)
(***************************************************************************)
IdleRequest ==
    [pc |-> "idle",
     via |-> "http",            \* "http": POST /extract; "direct": a caller
                                \* of llama_service.extract_from_buffer
     has_file |-> FALSE,        \* 'file' in request.files
     filename |-> <<>>,
     file_size |-> 0,
     upload |-> EmptyContent,   \* the bytes of the upload
     buffer_none |-> FALSE,     \* file_buffer is None (direct callers only)
     handle |-> None,           \* the file NamedTemporaryFile opened first
     temp_file_path |-> None,
     pages_file_path |-> Unbound,
     final_file_path |-> None,
     created |-> {},            \* paths this call created
     unlink_failed |-> {},      \* paths whose os.unlink raised
     sel_io_failed |-> FALSE,   \* the selector could not write its output
     schema_loaded |-> FALSE,
     agent_name |-> 0,
     agent_calls |-> 0,         \* calls of extractor.create_agent
     extract_calls |-> 0,       \* calls of agent.extract
     submitted |-> EmptyContent,\* content of the file given to agent.extract
     remote_value |-> 0,        \* result.data as agent.extract returned it
     remote |-> <<>>,           \* the remote calls made, in order
     result |-> NoResult,
     response |-> NoResponse]

\* what a client can send: a POST /extract with or without a file part, or
\* a direct call of extract_from_buffer with a buffer or None
RequestInputs ==
    { c \in [via : {"http", "direct"}, has_file : BOOLEAN, filename : Filenames,
             upload : Uploads, buffer_none : BOOLEAN] :
        /\ c.via = "direct" => c.has_file /\ c.filename = <<"a", ".", "p", "d", "f">>
        /\ c.via = "http" => ~c.buffer_none
        /\ ~c.has_file => c.filename = <<>> /\ c.upload.size = 0
        /\ c.buffer_none => c.upload.size = 0 }

\* two browsers posting a valid one-page PDF
ConcurrentInputs ==
    { c \in RequestInputs :
        /\ c.via = "http"
        /\ c.filename = <<"a", ".", "p", "d", "f">>
        /\ c.upload.content = SourcePdf(1) }

\* what the clients of a run send
InputsOf(who) ==
    IF who = "any" THEN RequestInputs
    ELSE IF who = "browsers" THEN ConcurrentInputs
    ELSE {}

Init ==
    /\ api_key \in BOOLEAN
    /\ LLAMA_EXTRACT_AVAILABLE \in BOOLEAN
    /\ PYPDF2_AVAILABLE \in BOOLEAN
    /\ ctor_ok \in BOOLEAN
    /\ extractor = LlamaExtractService_init(api_key, LLAMA_EXTRACT_AVAILABLE, ctor_ok)
    /\ fs = << >>
    /\ req = [r \in {1} |-> IdleRequest]
    /\ clients = "any"
    /\ selector_calls = << >>

\* a request arrives
Receive(r) ==
    /\ req[r].pc = "idle"
    /\ \E c \in InputsOf(clients) :
          req' = [req EXCEPT ![r] =
                    [@ EXCEPT !.pc = IF c.via = "http" THEN "validate" ELSE "service",
                              !.via = c.via, !.has_file = c.has_file,
                              !.filename = c.filename,
                              !.file_size = c.upload.size,
                              !.upload = c.upload.content,
                              !.buffer_none = c.buffer_none]]
    /\ UNCHANGED <<env, fs>>

\* app.py 19-37
Validate(r) ==
    /\ req[r].pc = "validate"
    /\ LET e == ValidationError(req[r].has_file, req[r].filename, req[r].file_size)
       IN req' = [req EXCEPT ![r] =
                    IF e # NoMessage
                    THEN [@ EXCEPT !.pc = "done", !.response = ErrorResponse(400, e)]
                    ELSE [@ EXCEPT !.pc = "available"]]
    /\ UNCHANGED <<env, fs>>

\* app.py 288-290 for an exception raised in the handler itself
HandlerException(e) == ErrorResponse(500, ServerError(e))

\* app.py 42-49: the availability check, then io.BytesIO(file.read()),
\* which can raise
CheckAvailable(r) ==
    /\ req[r].pc = "available"
    /\ \E read_ok \in BOOLEAN :
          req' = [req EXCEPT ![r] =
                    IF ~is_available(extractor)
                    THEN [@ EXCEPT !.pc = "done", !.response = UnavailableResponse]
                    ELSE IF read_ok THEN [@ EXCEPT !.pc = "service"]
                    ELSE [@ EXCEPT !.pc = "done",
                                   !.response = HandlerException("OSError")]]
    /\ UNCHANGED <<env, fs>>

(***************************************************************************)
(* extract_from_buffer                                                     *)
(***************************************************************************)
\* an except clause that tries create_agent once more before giving up
Caught_Retry(rq, e) ==
    IF rq.pc = "agent" /\ rq.agent_calls < 2
    THEN rq
    ELSE [rq EXCEPT !.pc = "finally", !.result = Failure(ExtractionFailed(e))]

\* an exception inside the try block: the except clause prepares the
\* failure result, then the finally clause runs
Caught(rq, e) == [rq EXCEPT !.pc = "finally", !.result = Failure(ExtractionFailed(e))]

\* lines 119-131: the checks before the try block
EnterService(r) ==
    /\ req[r].pc = "service"
    /\ req' = [req EXCEPT ![r] =
                 IF ~is_available(extractor)
                 THEN [@ EXCEPT !.pc = "returned", !.result = Failure(ERR_SVC_UNAVAILABLE)]
                 ELSE IF req[r].buffer_none
                 THEN [@ EXCEPT !.pc = "returned", !.result = Failure(ERR_NO_BUFFER)]
                 ELSE [@ EXCEPT !.pc = "create_temp", !.temp_file_path = None]]
    /\ UNCHANGED <<env, fs>>

\* line 136: tempfile.NamedTemporaryFile(delete=False, suffix='.pdf')
CreateTemp(r) ==
    /\ req[r].pc = "create_temp"
    /\ \/ \E p \in Paths \ DOMAIN fs :
            /\ fs' = (p :> EmptyContent) @@ fs
            /\ req' = [req EXCEPT ![r] =
                         [@ EXCEPT !.pc = "write_temp", !.handle = p,
                                   !.created = @ \cup {p}]]
       \/ /\ req' = [req EXCEPT ![r] = Caught(@, "OSError")]
          /\ fs' = fs
    /\ UNCHANGED env

\* lines 137-139: copy the upload into the file, then keep its name
WriteTemp(r) ==
    /\ req[r].pc = "write_temp"
    /\ \/ /\ fs' = [fs EXCEPT ![req[r].handle] = req[r].upload]
          /\ req' = [req EXCEPT ![r] =
                       [@ EXCEPT !.pc = "create_pages",
                                 !.temp_file_path = req[r].handle]]
       \/ \E left \in {EmptyContent, GarbageContent} :
            /\ left.nonempty => req[r].upload.nonempty
            /\ fs' = [fs EXCEPT ![req[r].handle] = left]
            /\ req' = [req EXCEPT ![r] = Caught(@, "OSError")]
    /\ UNCHANGED env

\* lines 144-145: the file the selected pages go to
CreatePages(r) ==
    /\ req[r].pc = "create_pages"
    /\ \/ \E p \in Paths \ DOMAIN fs :
            /\ fs' = (p :> EmptyContent) @@ fs
            /\ req' = [req EXCEPT ![r] =
                         [@ EXCEPT !.pc = "select", !.pages_file_path = p,
                                   !.created = @ \cup {p}]]
       \/ /\ req' = [req EXCEPT ![r] = Caught(@, "OSError")]
          /\ fs' = fs
    /\ UNCHANGED env

\* line 148
SelectPages(r) ==
    /\ req[r].pc = "select"
    /\ \E io \in {"ok", "not_opened", "partial"} :
          LET sel == extract_pages_20_to_40(fs, req[r].temp_file_path,
                                            req[r].pages_file_path, io)
          IN /\ fs' = sel.disk
             /\ req' = [req EXCEPT ![r] =
                          [@ EXCEPT !.pc = "check", !.final_file_path = sel.path,
                                    !.sel_io_failed = sel.io_failed]]
    /\ UNCHANGED env

\* a file check that is always satisfied
ExistsNonEmpty_Skipped(disk, path) == TRUE

\* os.path.exists(path) and os.path.getsize(path) > 0
ExistsNonEmpty(disk, path) == path \in DOMAIN disk /\ disk[path].nonempty

\* lines 151-152
CheckFile(r) ==
    /\ req[r].pc = "check"
    /\ req' = [req EXCEPT ![r] =
                 IF ~ExistsNonEmpty(fs, req[r].final_file_path)
                 THEN [@ EXCEPT !.pc = "finally", !.result = Failure(ERR_PAGES)]
                 ELSE [@ EXCEPT !.pc = "schema"]]
    /\ UNCHANGED <<env, fs>>

\* lines 158-162
GetSchema(r) ==
    /\ req[r].pc = "schema"
    /\ \/ req' = [req EXCEPT ![r] = [@ EXCEPT !.pc = "agent", !.schema_loaded = TRUE]]
       \/ req' = [req EXCEPT ![r] =
                    [@ EXCEPT !.pc = "finally",
                              !.result = Failure(SchemaFailed("SchemaError"))]]
    /\ UNCHANGED <<env, fs>>

\* one call of the remote service and whether it raised
RemoteCall(op, raised) == [op |-> op, raised |-> raised]

\* lines 165-170: a fresh name, then extractor.create_agent, which raises
\* AttributeError on a None extractor
CreateAgent(r) ==
    /\ req[r].pc = "agent"
    /\ \E n \in AgentSuffixes, ok \in BOOLEAN :
          LET named == [req[r] EXCEPT !.agent_name = n]
              called == [named EXCEPT !.agent_calls = @ + 1,
                                      !.remote = Append(@, RemoteCall("create_agent", ~ok))]
          IN req' = [req EXCEPT ![r] =
                       IF ~is_available(extractor) THEN Caught(named, "AttributeError")
                       ELSE IF ok THEN [called EXCEPT !.pc = "extract"]
                       ELSE Caught(called, "RemoteError")]
    /\ UNCHANGED <<env, fs>>

\* lines 174-412: agent.extract(final_file_path) and the success result
Extract(r) ==
    /\ req[r].pc = "extract"
    /\ LET path == req[r].final_file_path
           called == [req[r] EXCEPT
                        !.extract_calls = @ + 1,
                        !.submitted = IF path \in DOMAIN fs THEN fs[path]
                                      ELSE EmptyContent]
       IN \/ \E value \in DataValues :
               req' = [req EXCEPT ![r] =
                         [called EXCEPT !.pc = "finally",
                                        !.remote = Append(@, RemoteCall("extract", FALSE)),
                                        !.remote_value = value,
                                        !.result = Success(value, req[r].filename,
                                                           req[r].agent_name)]]
          \/ req' = [req EXCEPT ![r] =
                       Caught([called EXCEPT
                                 !.remote = Append(@, RemoteCall("extract", TRUE))],
                              "RemoteError")]
    /\ UNCHANGED <<env, fs>>

\* the paths the cleanup loop unlinks: file_path and os.path.exists(file_path)
ToUnlink(disk, temp_path, pages_path) ==
    { p \in {temp_path, pages_path} : p # None /\ p \in DOMAIN disk }

\* lines 424-428: an os.unlink that raises is logged and the loop goes on;
\* the paths that are gone after the loop
Unlinked(paths, failing) == paths \ failing

\* a cleanup whose os.unlink error replaces the pending result
CleanupResult_Raises(pending, failing) ==
    IF failing # {} THEN Raised("OSError") ELSE pending

\* lines 427-428: the except clause of the loop keeps the pending result
CleanupResult(pending, failing) == pending

\* lines 420-428: the list [temp_file_path, pages_file_path] is built first;
\* a name that was never bound raises UnboundLocalError out of the call
Finally(r) ==
    /\ req[r].pc = "finally"
    /\ IF req[r].pages_file_path = Unbound
       THEN /\ req' = [req EXCEPT ![r] =
                         [@ EXCEPT !.pc = "returned",
                                   !.result = Raised("UnboundLocalError")]]
            /\ fs' = fs
       ELSE LET paths == ToUnlink(fs, req[r].temp_file_path, req[r].pages_file_path)
            IN \E failing \in SUBSET paths :
                  /\ fs' = [p \in DOMAIN fs \ Unlinked(paths, failing) |-> fs[p]]
                  /\ req' = [req EXCEPT ![r] =
                               [@ EXCEPT !.pc = "returned",
                                         !.unlink_failed = failing,
                                         !.result = CleanupResult(@, failing)]]
    /\ UNCHANGED env

(***************************************************************************)
(* POST /extract after the call                                            *)
(***************************************************************************)
\* a handler without the outer except clause: the exception leaves it
ResponseFor_NoOuterCatch(result) ==
    IF result.outcome = "raised" THEN NoResponse
    ELSE IF result.outcome = "success" THEN SuccessResponse(result)
    ELSE FailureResponse(result)

\* app.py 58-290
ResponseFor(result) ==
    IF result.outcome = "raised" THEN ExceptionResponse(result)
    ELSE IF result.outcome = "success" THEN SuccessResponse(result)
    ELSE FailureResponse(result)

Respond(r) ==
    /\ req[r].pc = "returned"
    /\ req[r].via = "http"
    /\ req' = [req EXCEPT ![r] =
                 [@ EXCEPT !.pc = "done", !.response = ResponseFor(req[r].result)]]
    /\ UNCHANGED <<env, fs>>

Next ==
    \/ \E r \in DOMAIN req : Receive(r)
    \/ \E r \in DOMAIN req : Validate(r)
    \/ \E r \in DOMAIN req : CheckAvailable(r)
    \/ \E r \in DOMAIN req : EnterService(r)
    \/ \E r \in DOMAIN req : CreateTemp(r)
    \/ \E r \in DOMAIN req : WriteTemp(r)
    \/ \E r \in DOMAIN req : CreatePages(r)
    \/ \E r \in DOMAIN req : SelectPages(r)
    \/ \E r \in DOMAIN req : CheckFile(r)
    \/ \E r \in DOMAIN req : GetSchema(r)
    \/ \E r \in DOMAIN req : CreateAgent(r)
    \/ \E r \in DOMAIN req : Extract(r)
    \/ \E r \in DOMAIN req : Finally(r)
    \/ \E r \in DOMAIN req : Respond(r)

Spec == Init /\ [][Next]_vars

(***************************************************************************)
(* Two requests handled at the same time by two threads of the server      *)
(***************************************************************************)
RequestIds == {1, 2}

InitConcurrent ==
    /\ api_key = TRUE
    /\ LLAMA_EXTRACT_AVAILABLE = TRUE
    /\ PYPDF2_AVAILABLE = TRUE
    /\ ctor_ok = TRUE
    /\ extractor = LlamaExtractService_init(api_key, LLAMA_EXTRACT_AVAILABLE, ctor_ok)
    /\ fs = << >>
    /\ req = [r \in RequestIds |-> IdleRequest]
    /\ clients = "browsers"
    /\ selector_calls = << >>

SpecConcurrent == InitConcurrent /\ [][Next]_vars

(***************************************************************************)
(* A caller of extract_pages_20_to_40 that calls it again with the same    *)
(* input_path and output_path                                              *)
(***************************************************************************)
InitSelector ==
    /\ api_key = TRUE
    /\ LLAMA_EXTRACT_AVAILABLE = TRUE
    /\ PYPDF2_AVAILABLE \in BOOLEAN
    /\ ctor_ok = TRUE
    /\ extractor = LlamaExtractService_init(api_key, LLAMA_EXTRACT_AVAILABLE, ctor_ok)
    /\ \E u \in Uploads : fs = (1 :> u.content) @@ (2 :> EmptyContent)
    /\ req = [r \in {1} |-> IdleRequest]
    /\ clients = "none"
    /\ selector_calls = << >>

\* extract_pages_20_to_40(input_path, output_path) on paths 1 and 2
CallSelector ==
    /\ Len(selector_calls) < MaxSelectorCalls
    /\ \E io \in {"ok", "not_opened", "partial"} :
          LET out == extract_pages_20_to_40(fs, 1, 2, io)
          IN /\ fs' = out.disk
             /\ selector_calls' =
                   Append(selector_calls,
                          [path |-> out.path,
                           output |-> out.disk[out.path],
                           io_failed |-> out.io_failed,
                           source |-> fs[1]])
    /\ UNCHANGED <<api_key, LLAMA_EXTRACT_AVAILABLE, PYPDF2_AVAILABLE, ctor_ok,
                   extractor, req, clients>>

NextSelector == CallSelector

SpecSelector == InitSelector /\ [][NextSelector]_vars

\* the handler is sequential code run to its end by the request's thread:
\* every statement, the blocking remote calls included, returns or raises
FairSpec == Init /\ [][Next]_vars /\ WF_vars(Next)

(***************************************************************************)
(* Vocabulary of the properties                                            *)
(***************************************************************************)
\* extract_from_buffer was called and has returned or raised
Returned(rq) == rq.result.outcome # "none"

\* the selector has been called and has returned
Selected(rq) == rq.final_file_path # None

\* between the selector's return and the cleanup
BeforeCleanup(rq) == rq.pc \in {"check", "schema", "agent", "extract", "finally"}

\* no credential, client package missing, or client construction failed
NotConfigured == ~api_key \/ ~LLAMA_EXTRACT_AVAILABLE \/ ~ctor_ok

\* the upload is a PDF that PyPDF2 parses, with this many pages
TotalPages(rq) == Len(rq.upload.pages)

\* the selector was able to split: PyPDF2 is there and the output was written
Splitting(rq) == PYPDF2_AVAILABLE /\ ~rq.sel_io_failed

C2_UnconfiguredCallFailsWithoutIO ==
    NotConfigured =>
       /\ DOMAIN fs = {}
       /\ \A r \in DOMAIN req :
             /\ req[r].created = {}
             /\ req[r].agent_calls = 0
             /\ req[r].extract_calls = 0
             /\ req[r].via = "direct" /\ req[r].pc # "idle" /\ req[r].pc # "service"
                   => /\ req[r].pc = "returned"
                      /\ req[r].result.outcome = "failure"
                      /\ req[r].result.error # NoMessage

C2_Witness ==
    \E r \in DOMAIN req :
       /\ api_key /\ LLAMA_EXTRACT_AVAILABLE /\ ~ctor_ok
       /\ req[r].via = "direct"
       /\ ~req[r].buffer_none
       /\ req[r].pc = "returned"
       /\ req[r].result = Failure(ERR_SVC_UNAVAILABLE)

(***************************************************************************)
(* C3  With the service available, extract_from_buffer always returns a    *)
(* result (success or failure); no exception leaves it.                    *)
(***************************************************************************)
C3_NoExceptionEscapes ==
    \A r \in DOMAIN req :
       is_available(extractor) /\ Returned(req[r])
          => req[r].result.outcome \in {"success", "failure"}

(***************************************************************************)
(* C4  Long document: for a parseable PDF of at least 40 pages the         *)
(* selector's output has exactly 21 pages and output page N is source page *)
(* 20 + N - 1.                                                             *)
(***************************************************************************)
C4_LongDocumentSelection ==
    \A r \in DOMAIN req :
       /\ req[r].pc = "check"
       /\ Splitting(req[r])
       /\ req[r].upload.parseable
       /\ TotalPages(req[r]) >= 40
       => /\ req[r].final_file_path = req[r].pages_file_path
          /\ req[r].final_file_path \in DOMAIN fs
          /\ LET out == fs[req[r].final_file_path]
             IN /\ out.parseable
                /\ Len(out.pages) = 21
                /\ \A n \in 1..Len(out.pages) :
                      out.pages[n] = req[r].upload.pages[20 + n - 1]
          /\ fs[req[r].temp_file_path] = req[r].upload

C4_Witness ==
    \E r \in DOMAIN req :
       /\ req[r].pc = "check"
       /\ Splitting(req[r])
       /\ req[r].upload.parseable
       /\ TotalPages(req[r]) > 40
       /\ req[r].final_file_path = req[r].pages_file_path
       /\ Len(fs[req[r].final_file_path].pages) = 21
       /\ fs[req[r].final_file_path].pages[21] = 40

(***************************************************************************)
(* C5  Short document: for a PDF of fewer than 20 pages the selector       *)
(* returns the original document unchanged, the request is not aborted by  *)
(* the file check, and what agent.extract receives is that full document.  *)
(***************************************************************************)
C5_ShortDocumentUnchanged ==
    \A r \in DOMAIN req :
       /\ Selected(req[r])
       /\ req[r].upload.parseable
       /\ TotalPages(req[r]) < 20
       => /\ req[r].final_file_path = req[r].temp_file_path
          /\ BeforeCleanup(req[r])
                => /\ req[r].final_file_path \in DOMAIN fs
                   /\ fs[req[r].final_file_path] = req[r].upload
          /\ req[r].result.error # ERR_PAGES
          /\ req[r].pc = "extract" => req[r].agent_calls = 1
          /\ req[r].extract_calls > 0 => req[r].submitted = req[r].upload

C5_Witness ==
    \E r \in DOMAIN req :
       /\ PYPDF2_AVAILABLE
       /\ req[r].upload.parseable
       /\ TotalPages(req[r]) = 19
       /\ req[r].extract_calls = 1
       /\ Len(req[r].submitted.pages) = 19
       /\ req[r].result.outcome = "success"

(***************************************************************************)
(* C6  Clamping: for a parseable PDF of T pages, 20 <= T < 40, the         *)
(* selector's output is exactly the source pages 20..T in their order,     *)
(* T - 20 + 1 pages and never zero.                                        *)
(***************************************************************************)
C6_ClampedSelection ==
    \A r \in DOMAIN req :
       /\ req[r].pc = "check"
       /\ Splitting(req[r])
       /\ req[r].upload.parseable
       /\ TotalPages(req[r]) >= 20
       /\ TotalPages(req[r]) < 40
       => /\ req[r].final_file_path = req[r].pages_file_path
          /\ req[r].final_file_path \in DOMAIN fs
          /\ LET out == fs[req[r].final_file_path]
                 T == TotalPages(req[r])
             IN /\ out.parseable
                /\ Len(out.pages) = T - 20 + 1
                /\ Len(out.pages) > 0
                /\ \A n \in 1..Len(out.pages) :
                      out.pages[n] = req[r].upload.pages[20 + n - 1]
                /\ out.pages[Len(out.pages)] = req[r].upload.pages[T]

C6_Witness ==
    \E r \in DOMAIN req :
       /\ req[r].pc = "check"
       /\ Splitting(req[r])
       /\ req[r].upload.parseable
       /\ TotalPages(req[r]) = 20
       /\ req[r].final_file_path = req[r].pages_file_path
       /\ fs[req[r].final_file_path].pages = <<20>>

(***************************************************************************)
(* C7  Silent fallback.  As claimed: whenever the upload cannot be parsed  *)
(* as a PDF (a zero-length upload included) or PyPDF2 is unavailable, the  *)
(* selector returns the original document and the call is not failed by    *)
(* the file check before the remote calls.                                 *)
(***************************************************************************)
C7_Original_FallbackAlwaysProceeds ==
    \A r \in DOMAIN req :
       /\ Selected(req[r])
       /\ ~req[r].upload.parseable \/ ~PYPDF2_AVAILABLE
       => /\ req[r].final_file_path = req[r].temp_file_path
          /\ req[r].result.error # ERR_PAGES

(***************************************************************************)
(* C7  amended: in those cases the selector returns the original           *)
(* document; when the upload is not empty the call goes on to the schema,  *)
(* the agent and agent.extract on the full original document; when the     *)
(* upload is zero-length the file check fails the call with ERR_PAGES      *)
(* before any remote call.                                                 *)
(***************************************************************************)
C7_FallbackProceedsUnlessEmpty ==
    \A r \in DOMAIN req :
       /\ Selected(req[r])
       /\ ~req[r].upload.parseable \/ ~PYPDF2_AVAILABLE
       => /\ req[r].final_file_path = req[r].temp_file_path
          /\ BeforeCleanup(req[r])
                => /\ req[r].final_file_path \in DOMAIN fs
                   /\ fs[req[r].final_file_path] = req[r].upload
          /\ req[r].upload.nonempty
                => /\ req[r].result.error # ERR_PAGES
                   /\ req[r].pc = "extract" => req[r].agent_calls = 1
                   /\ req[r].extract_calls > 0 => req[r].submitted = req[r].upload
          /\ ~req[r].upload.nonempty /\ req[r].pc # "check"
                => /\ req[r].result.error = ERR_PAGES
                   /\ req[r].agent_calls = 0
                   /\ req[r].extract_calls = 0

C7_Witness ==
    \E r \in DOMAIN req :
       /\ PYPDF2_AVAILABLE
       /\ req[r].upload = GarbageContent
       /\ req[r].final_file_path = req[r].temp_file_path
       /\ req[r].extract_calls = 1
       /\ req[r].submitted = GarbageContent

(***************************************************************************)
(* C8  Upload validation: a POST /extract with no file part, an empty      *)
(* filename, a filename whose lower-cased form does not end in .pdf, or a  *)
(* file of more than 16 MiB is answered 400 {error}; no transient file is  *)
(* created and neither create_agent nor extract is called.                 *)
(***************************************************************************)
InvalidUpload(rq) ==
    \/ ~rq.has_file
    \/ rq.filename = <<>>
    \/ ~EndsWith(Lower(rq.filename), <<".", "p", "d", "f">>)
    \/ rq.file_size > 16777216

C8_InvalidUploadAnswered400 ==
    \A r \in DOMAIN req :
       /\ req[r].via = "http"
       /\ req[r].pc \notin {"idle", "validate"}
       /\ InvalidUpload(req[r])
       => /\ req[r].pc = "done"
          /\ req[r].response.status = 400
          /\ req[r].response.keys = {"error"}
          /\ req[r].response.error # NoMessage
          /\ req[r].created = {}
          /\ DOMAIN fs = {}
          /\ req[r].agent_calls = 0
          /\ req[r].extract_calls = 0

C8_Witness ==
    \E r \in DOMAIN req :
       /\ req[r].via = "http"
       /\ req[r].has_file
       /\ req[r].filename = <<"a", ".", "P", "D", "F">>
       /\ req[r].file_size = 16777217
       /\ is_available(extractor)
       /\ req[r].pc = "done"
       /\ req[r].response.status = 400

(***************************************************************************)
(* C9  A valid upload while the remote service is not configured is        *)
(* answered 503 with error and fallback_message, never 500 or 200, and no  *)
(* transient file is created.                                              *)
(***************************************************************************)
C9_UnconfiguredAnswered503 ==
    \A r \in DOMAIN req :
       /\ req[r].via = "http"
       /\ req[r].pc \notin {"idle", "validate", "available"}
       /\ ~InvalidUpload(req[r])
       /\ NotConfigured
       => /\ req[r].pc = "done"
          /\ req[r].response.status = 503
          /\ req[r].response.keys = {"error", "fallback_message"}
          /\ req[r].response.error # NoMessage
          /\ req[r].response.fallback_message # NoMessage
          /\ req[r].created = {}
          /\ DOMAIN fs = {}
          /\ ~Returned(req[r])

C9_Witness ==
    \E r \in DOMAIN req :
       /\ ~api_key
       /\ req[r].via = "http"
       /\ req[r].upload.parseable
       /\ req[r].pc = "done"
       /\ req[r].response.status = 503

(***************************************************************************)
(* C10  When extract_from_buffer returns a failure result, the response    *)
(* is 500 and carries only the failure message: no template section, no    *)
(* extracted data, no metadata.                                            *)
(***************************************************************************)
C10_FailureResponseCarriesOnlyError ==
    \A r \in DOMAIN req :
       /\ req[r].via = "http"
       /\ req[r].pc = "done"
       /\ req[r].result.outcome = "failure"
       => /\ req[r].response.status = 500
          /\ req[r].response.keys = {"error"}
          /\ req[r].response.error = req[r].result.error
          /\ req[r].response.llamaExtractedData = NoData
          /\ req[r].response.extractionMetadata = NoMetadata

C10_Witness ==
    \E r \in DOMAIN req :
       /\ req[r].via = "http"
       /\ req[r].pc = "done"
       /\ req[r].extract_calls = 1
       /\ req[r].result = Failure(ExtractionFailed("RemoteError"))
       /\ req[r].response.status = 500

(***************************************************************************)
(* C11  On success the response is 200; the value agent.extract returned   *)
(* is in it unchanged under llamaExtractedData, a key that is not a        *)
(* template key, with the request's filename, the schema identifier and    *)
(* the agent name generated for this request; the template part is the     *)
(* same whatever was extracted.                                            *)
(***************************************************************************)
C11_SuccessResponseCarriesValue ==
    \A r \in DOMAIN req :
       /\ req[r].via = "http"
       /\ req[r].pc = "done"
       /\ req[r].result.outcome = "success"
       => /\ req[r].response.status = 200
          /\ req[r].remote = <<[op |-> "create_agent", raised |-> FALSE],
                               [op |-> "extract", raised |-> FALSE]>>
          /\ "llamaExtractedData" \in req[r].response.keys
          /\ "llamaExtractedData" \notin TemplateKeys
          /\ req[r].response.llamaExtractedData.extracted_content = req[r].remote_value
          /\ req[r].response.extractionMetadata.filename = req[r].filename
          /\ req[r].response.extractionMetadata.schema_type = "clinical_study_protocol"
          /\ req[r].response.extractionMetadata.agent_name = req[r].agent_name
          /\ req[r].agent_name \in AgentSuffixes
          /\ req[r].response.keys \ {"llamaExtractedData", "extractionMetadata"}
                = TemplateKeys
          /\ req[r].response.error = NoMessage

C11_Witness ==
    \E r \in DOMAIN req :
       /\ req[r].via = "http"
       /\ req[r].pc = "done"
       /\ req[r].filename = <<"a", ".", "P", "D", "F">>
       /\ req[r].remote_value = 2
       /\ req[r].agent_name = 2
       /\ req[r].response.status = 200
       /\ req[r].response.llamaExtractedData.extracted_content = 2

(***************************************************************************)
(* C12  On every success the page range reported in the payload is the     *)
(* range actually processed: the pages named by pages_processed are the    *)
(* source pages of the document given to agent.extract, also after         *)
(* clamping or a fallback to the full document.                            *)
(***************************************************************************)
\* the pages a label "first-last" names
ReportedPages(label) == IF label = "20-40" THEN 20..40 ELSE {}

\* the source pages a document contains
PagesOf(content) == { content.pages[i] : i \in 1..Len(content.pages) }

C12_ReportedRangeIsProcessedRange ==
    \A r \in DOMAIN req :
       req[r].result.outcome = "success"
          => ReportedPages(req[r].result.data.pages_processed)
                = PagesOf(req[r].submitted)

(***************************************************************************)
(* C13  Nothing is retried: within one request create_agent is called at   *)
(* most once and extract at most once, no remote call follows one that     *)
(* raised, and extract is called only after create_agent returned.         *)
(***************************************************************************)
C13_NothingRetried ==
    \A r \in DOMAIN req :
       LET log == req[r].remote
           calls(op) == { i \in 1..Len(log) : log[i].op = op }
       IN /\ Cardinality(calls("create_agent")) <= 1
          /\ Cardinality(calls("extract")) <= 1
          /\ req[r].agent_calls = Cardinality(calls("create_agent"))
          /\ req[r].extract_calls = Cardinality(calls("extract"))
          /\ \A i \in 1..Len(log) : log[i].raised => i = Len(log)
          /\ \A i \in calls("extract") :
                i = 2 /\ log[1].op = "create_agent" /\ ~log[1].raised

C13_Witness ==
    \E r \in DOMAIN req :
       /\ req[r].remote = <<[op |-> "create_agent", raised |-> TRUE]>>
       /\ req[r].pc = "returned"
       /\ req[r].result = Failure(ExtractionFailed("RemoteError"))
       /\ req[r].extract_calls = 0

(***************************************************************************)
(* C14  A cleanup failure never masks the primary result: when an          *)
(* os.unlink of the cleanup fails, the other file is still deleted and the *)
(* call returns exactly the result that was pending (success value or      *)
(* failure message); the deletion error is neither returned nor raised.    *)
(***************************************************************************)
C14_CleanupFailureKeepsResult ==
    [][ \A r \in DOMAIN req :
           /\ req[r].pc = "finally"
           /\ req'[r].pc = "returned"
           /\ req'[r].unlink_failed # {}
           => /\ req'[r].result = req[r].result
              /\ req'[r].result.outcome \in {"success", "failure"}
              /\ \A p \in {req[r].temp_file_path, req[r].pages_file_path}
                             \cap DOMAIN fs :
                    /\ p \notin req'[r].unlink_failed => p \notin DOMAIN fs'
                    /\ p \in req'[r].unlink_failed => p \in DOMAIN fs'
      ]_vars

C14_Witness ==
    \E r \in DOMAIN req :
       /\ req[r].pc = "returned"
       /\ req[r].result.outcome = "success"
       /\ Cardinality(req[r].created) = 2
       /\ Cardinality(req[r].unlink_failed) = 1
       /\ req[r].created \cap DOMAIN fs = req[r].unlink_failed

(***************************************************************************)
(* C15  Every POST /extract ends with exactly one JSON response whose      *)
(* status is 200, 400, 503 or 500: an exception raised while handling the  *)
(* request, one leaving extract_from_buffer included, is answered          *)
(* 500 {error: message}; the response is produced once, at the end, and    *)
(* every received request reaches it.                                      *)
(***************************************************************************)
C15_Answered(rq) ==
    /\ rq.pc # "done" => rq.response = NoResponse
    /\ rq.via = "http" /\ rq.pc = "done"
          => /\ rq.response.status \in {200, 400, 503, 500}
             /\ rq.response.status # 200 => "error" \in rq.response.keys
             /\ rq.result.outcome = "raised"
                   => /\ rq.response.status = 500
                      /\ rq.response.keys = {"error"}
                      /\ rq.response.error = <<"Server error: ", rq.result.error[1]>>

C15_EveryRequestAnswered ==
    /\ [](\A r \in DOMAIN req : C15_Answered(req[r]))
    /\ [][ \A r \in DOMAIN req : req[r].pc = "done" => req'[r] = req[r] ]_vars
    /\ \A r \in RequestIds :
          (r \in DOMAIN req /\ req[r].pc = "validate")
             ~> (r \in DOMAIN req /\ req[r].pc = "done")

C15_Witness ==
    \E r \in DOMAIN req :
       /\ req[r].via = "http"
       /\ req[r].pc = "done"
       /\ req[r].result = Raised("UnboundLocalError")
       /\ req[r].response.status = 500
       /\ req[r].response.error = <<"Server error: ", "UnboundLocalError">>

(***************************************************************************)
(* C18  Ordering within one request: when agent.extract is called the file *)
(* it is given exists and is not empty and every transient file of the     *)
(* request is still there; a transient file is deleted only by the         *)
(* request's own cleanup step, after the result has been determined.       *)
(***************************************************************************)
C18_FilePresentAtExtract(rq) ==
    /\ rq.pc = "extract"
          => /\ rq.final_file_path \in DOMAIN fs
             /\ fs[rq.final_file_path].nonempty
             /\ rq.created \subseteq DOMAIN fs
             /\ rq.created = {rq.temp_file_path, rq.pages_file_path}
    /\ rq.extract_calls > 0 => rq.submitted.nonempty

C18_SubmitBeforeCleanup ==
    /\ [](\A r \in DOMAIN req : C18_FilePresentAtExtract(req[r]))
    /\ [][ \A p \in DOMAIN fs \ DOMAIN fs' :
              \E r \in DOMAIN req :
                 /\ p \in req[r].created
                 /\ req[r].pc = "finally"
                 /\ req'[r].pc = "returned"
                 /\ req[r].result.outcome \in {"success", "failure"}
                 /\ req[r].extract_calls = 0 =>
                       req[r].result.outcome = "failure"
      ]_vars

C18_Witness ==
    \E r \in DOMAIN req :
       /\ req[r].pc = "returned"
       /\ req[r].extract_calls = 1
       /\ req[r].result.outcome = "success"
       /\ Cardinality(req[r].created) = 2
       /\ req[r].created \cap DOMAIN fs = {}

(***************************************************************************)
(* C19  Check ordering at POST /extract: validation comes before the       *)
(* availability check, so an invalid upload is answered 400 also when the  *)
(* remote service is not configured, 503 is returned only for uploads that *)
(* passed every validation check, and a file of exactly 16 MiB passes the  *)
(* size check.                                                             *)
(***************************************************************************)
C19_ValidationBeforeAvailability ==
    \A r \in DOMAIN req :
       req[r].via = "http" /\ req[r].pc = "done"
          => /\ InvalidUpload(req[r]) => req[r].response.status = 400
             /\ req[r].response.status = 503
                   => ~InvalidUpload(req[r]) /\ ~is_available(extractor)
             /\ /\ req[r].has_file
                /\ req[r].filename = <<"a", ".", "p", "d", "f">>
                /\ req[r].file_size = 16777216
                => req[r].response.status # 400
             /\ req[r].response.error = <<"File too large. Maximum 16MB allowed">>
                   => req[r].file_size > 16777216

C19_Witness ==
    \E r \in DOMAIN req :
       /\ NotConfigured
       /\ req[r].via = "http"
       /\ req[r].pc = "done"
       /\ req[r].has_file
       /\ req[r].filename = <<"a", ".", "t", "x", "t">>
       /\ req[r].response.status = 400

(***************************************************************************)
(* C16  Non-interference of concurrent requests: under every interleaving  *)
(* the temp-file paths of two requests that are both inside                *)
(* extract_from_buffer are disjoint, and the agent names of two requests   *)
(* that both hold one are distinct.                                        *)
(***************************************************************************)
\* inside the try block of extract_from_buffer
InFlight(rq) ==
    rq.pc \in {"create_temp", "write_temp", "create_pages", "select", "check",
               "schema", "agent", "extract", "finally"}

\* the paths a request reads, submits or deletes
HeldPaths(rq) ==
    {rq.handle, rq.temp_file_path, rq.pages_file_path, rq.final_file_path}
       \ {None, Unbound}

\* the request has generated its agent name and not yet finished
HoldsAgentName(rq) == rq.agent_name # 0 /\ InFlight(rq)

\* the part of C16 about the temp files
C16_TempPathsDisjoint ==
    \A r1, r2 \in DOMAIN req :
       r1 # r2 /\ InFlight(req[r1]) /\ InFlight(req[r2])
          => /\ HeldPaths(req[r1]) \cap HeldPaths(req[r2]) = {}
             /\ HeldPaths(req[r1]) \subseteq req[r1].created
             /\ HeldPaths(req[r1]) \subseteq DOMAIN fs

C16_NoInterference ==
    /\ C16_TempPathsDisjoint
    /\ \A r1, r2 \in DOMAIN req :
          r1 # r2 /\ HoldsAgentName(req[r1]) /\ HoldsAgentName(req[r2])
             => req[r1].agent_name # req[r2].agent_name

(***************************************************************************)
(* C17  Idempotence of the page selection: two calls of the selector with  *)
(* the same source document and the same output path, both able to write,  *)
(* return the same path with the same document in it, and the source       *)
(* document is the same before and after every call.                       *)
(***************************************************************************)
C17_SelectionIdempotent ==
    \A i, j \in 1..Len(selector_calls) :
       /\ selector_calls[i].source = selector_calls[1].source
       /\ fs[1] = selector_calls[1].source
       /\ ~selector_calls[i].io_failed /\ ~selector_calls[j].io_failed
             => /\ selector_calls[i].path = selector_calls[j].path
                /\ selector_calls[i].output = selector_calls[j].output

C17_Witness ==
    /\ PYPDF2_AVAILABLE
    /\ Len(selector_calls) = 2
    /\ ~selector_calls[1].io_failed
    /\ ~selector_calls[2].io_failed
    /\ selector_calls[2].path = 2
    /\ Len(selector_calls[1].source.pages) = 41
    /\ Len(selector_calls[2].output.pages) = 21
    /\ fs[2] = selector_calls[1].output

====
